---- MODULE Spec2Model ----
(***************************************************************************)
(* GroupDivision.py: greedy assignment of students to groups, balancing,   *)
(* evaluation of the friend success rate and the best-of-n search.         *)
(*                                                                         *)
(* Individuals are the integers 1..; 0 is a name that is nominated but is  *)
(* never a student.  A group label "Group<g>" is the index g, and the      *)
(* groups dictionary (insertion ordered) is the sequence of member lists.  *)
(* Python's None is the empty tuple and a present value x is <<x>>.        *)
(***************************************************************************)
EXTENDS Integers, Sequences, FiniteSets, TLC

VARIABLES
    num_groups,          \* num_groups argument
    n,                   \* n argument of run_n_times
    students,            \* the students list (shuffled in place)
    ordering,            \* the list as the caller of the assigner supplies it
    student_to_friends,  \* student -> list of nominated names
    groups,              \* groups dictionary of the running call
    student_to_group,    \* student_to_group dictionary of the running call
    target_size,         \* target_size argument of balance_groups
    idx,                 \* position of the for loop over students (1-based)
    moves,               \* iterations of the while loop of balance_groups
    i,                   \* loop variable of run_n_times
    curr_values_dict,
    max_values_dict,
    calls,               \* what each finished call returned, in call order
    result,              \* what evaluate_friend_success returned
    pc                   \* control position

vars == <<num_groups, n, students, ordering, student_to_friends, groups, student_to_group,
          target_size, idx, moves, i, curr_values_dict, max_values_dict,
          calls, result, pc>>

\* ---------------------------------------------------------------- bounds
MaxStudents == 3
MaxGroups == 3
MaxTrials == 2
MaxNominations == 2
MaxNominationsTwice == 1
MaxFriends == 2
ChainLen == 13
MaxGroupSize == 5
MaxTargetSize == 3

\* ---------------------------------------------------------------- helpers
None == <<>>
Some(x) == <<x>>

Range(s) == {s[k] : k \in DOMAIN s}

Names == 0..MaxStudents

\* the lists load_students builds from the columns friend1 and friend2
FriendLists == UNION {[1..l -> Names] : l \in 0..MaxFriends}

\* the friends lists of at most b entries
FriendListsUpTo(b) == {l \in FriendLists : Len(l) <= b}

\* the preference maps of the students 1..k with at most b entries in all
RECURSIVE MapsUpTo(_, _)
MapsUpTo(k, b) ==
    IF k = 0 THEN {<<>>}
    ELSE UNION {{Append(f, l) : f \in MapsUpTo(k - 1, b - Len(l))} :
                   l \in FriendListsUpTo(b)}

\* the preference maps over the students S = 1..k with at most MaxNominations
\* entries
PreferenceMaps(S) == MapsUpTo(Cardinality(S), MaxNominations)

\* the students column: 1..k, or 1..k followed by a second row of student 1
StudentLists ==
    {[k \in 1..l |-> k] : l \in 0..MaxStudents}
    \cup {[k \in 1..l |-> IF k = l THEN 1 ELSE k] : l \in 2..MaxStudents}

NoDuplicates(list) == Cardinality(Range(list)) = Len(list)

\* random.shuffle: every rearrangement of the list
shuffle(list) ==
    {[k \in DOMAIN list |-> list[p[k]]] :
        p \in {q \in [DOMAIN list -> DOMAIN list] : Range(q) = DOMAIN list}}

\* student_to_friends.get(student, [])
Get(stf, student) == IF student \in DOMAIN stf THEN stf[student] ELSE <<>>

\* a // b of Python (floor), b # 0
FloorDiv(a, b) == IF b > 0 THEN a \div b ELSE (0 - a) \div (0 - b)

\* percentages are kept exact, as a numerator and a positive denominator
Ratio(a, b) == [num |-> a, den |-> b]
PercentGT(p, q) == p.num * q.den > q.num * p.den
PercentEQ(p, q) == p.num * q.den = q.num * p.den
Zero == Ratio(0, 1)

\* ------------------------------------------------- assign_students_to_groups
fresh_groups(G) == [g \in 1..G |-> <<>>]

friend_score(student, members, stf) ==
    Cardinality({k \in DOMAIN Get(stf, student) :
                    Get(stf, student)[k] \in Range(members)})

\* as score, with a friend worth 9
score_nine(student, members, stf) ==
    friend_score(student, members, stf) * 9 - Len(members)

score(student, members, stf) ==
    friend_score(student, members, stf) * 10 - Len(members)

\* as better, with >= for >: the last group of greatest score wins
better_or_equal(s, best_score) == best_score = None \/ s >= best_score[1]

better(s, best_score) == best_score = None \/ s > best_score[1]

RECURSIVE best_group_scan(_, _, _, _, _, _)
best_group_scan(student, grps, stf, g, best_group, best_score) ==
    IF g > Len(grps) THEN best_group
    ELSE LET s == score(student, grps[g], stf) IN
         IF better(s, best_score)
         THEN best_group_scan(student, grps, stf, g + 1, Some(g), Some(s))
         ELSE best_group_scan(student, grps, stf, g + 1, best_group, best_score)

best_group_of(student, grps, stg, stf) ==
    IF student \in DOMAIN stg THEN None
    ELSE best_group_scan(student, grps, stf, 1, None, None)

\* one iteration of the for loop over students
place(student, grps, stg, stf) ==
    LET best == best_group_of(student, grps, stg, stf) IN
    IF best = None THEN [groups |-> grps, student_to_group |-> stg]
    ELSE [groups |-> [grps EXCEPT ![best[1]] = Append(@, student)],
          student_to_group |-> (student :> best[1]) @@ stg]

RECURSIVE assign_loop(_, _, _, _, _)
assign_loop(order, k, grps, stg, stf) ==
    IF k > Len(order) THEN [groups |-> grps, student_to_group |-> stg]
    ELSE LET r == place(order[k], grps, stg, stf) IN
         assign_loop(order, k + 1, r.groups, r.student_to_group, stf)

\* the groups returned for a processing order (the list after the shuffle)
assign_in_order(order, stf, G) ==
    assign_loop(order, 1, fresh_groups(G), <<>>, stf).groups

\* ------------------------------------------------------------ balance_groups
overfilled(grps, T) == {g \in DOMAIN grps : Len(grps[g]) > T + 1}

\* as underfilled, with <= for <
underfilled_or_full(grps, T) == {g \in DOMAIN grps : Len(grps[g]) <= T}

underfilled(grps, T) == {g \in DOMAIN grps : Len(grps[g]) < T}

Min(S) == CHOOSE x \in S : \A y \in S : x <= y

balance_done(grps, T) == overfilled(grps, T) = {} \/ underfilled(grps, T) = {}

\* as balance_move, but the student handed over is read at the head of the
\* donor while pop() removes its tail
balance_move_head(grps, T) ==
    LET donor == Min(overfilled(grps, T))
        receiver == Min(underfilled(grps, T))
        student == grps[donor][1]
    IN [grps EXCEPT ![donor] = SubSeq(@, 1, Len(@) - 1),
                    ![receiver] = Append(@, student)]

\* one iteration of the while loop that does not break
balance_move(grps, T) ==
    LET donor == Min(overfilled(grps, T))
        receiver == Min(underfilled(grps, T))
        student == grps[donor][Len(grps[donor])]
    IN [grps EXCEPT ![donor] = SubSeq(@, 1, Len(@) - 1),
                    ![receiver] = Append(@, student)]

RECURSIVE balance_groups(_, _)
balance_groups(grps, T) ==
    IF balance_done(grps, T) THEN grps
    ELSE balance_groups(balance_move(grps, T), T)

\* --------------------------------------------------- evaluate_friend_success
\* the dictionary comprehension: a later group overwrites an earlier one
student_to_group_of(grps) ==
    [s \in UNION {Range(grps[g]) : g \in DOMAIN grps} |->
        CHOOSE g \in DOMAIN grps :
            /\ s \in Range(grps[g])
            /\ \A h \in DOMAIN grps : h > g => s \notin Range(grps[h])]

\* as friend_in_group, without the comparison of the two groups
friend_in_partition(student, stg, stf) ==
    \E k \in DOMAIN stf[student] : stf[student][k] \in DOMAIN stg

friend_in_group(student, stg, stf) ==
    \E k \in DOMAIN stf[student] :
        /\ stf[student][k] \in DOMAIN stg
        /\ stg[stf[student][k]] = stg[student]

RECURSIVE evaluate_loop(_, _, _, _, _)
evaluate_loop(keys, stg, stf, total, success) ==
    IF keys = {} THEN [total |-> total, success |-> success]
    ELSE LET student == Min(keys) IN
         IF student \notin DOMAIN stg
         THEN evaluate_loop(keys \ {student}, stg, stf, total, success)
         ELSE evaluate_loop(keys \ {student}, stg, stf, total + 1,
                  IF friend_in_group(student, stg, stf) THEN success + 1 ELSE success)

percent_of(success, total) == IF total > 0 THEN Ratio(success * 100, total) ELSE Zero

evaluate_friend_success(grps, stf) ==
    LET r == evaluate_loop(DOMAIN stf, student_to_group_of(grps), stf, 0, 0) IN
    [percent |-> percent_of(r.success, r.total), success |-> r.success, total |-> r.total]

\* ------------------------------------------------------ run_smart_assignment
\* the body after load_students, for the order the two shuffles (line 191 and
\* line 46) leave the list in; num_groups = 0 raises at line 196 instead
run_smart_assignment(order, stf, G) ==
    LET assigned == assign_in_order(order, stf, G)
        total_students == Len(order)
        T == FloorDiv(total_students, G)
        balanced == balance_groups(assigned, T)
        e == evaluate_friend_success(balanced, stf)
    IN [percent |-> e.percent, groups |-> balanced, student_to_friends |-> stf,
        success |-> e.success, total |-> e.total]

\* the orders in which a trial can process the list it loaded
trial_orders(loaded) == UNION {shuffle(o) : o \in shuffle(loaded)}

\* ---------------------------------------------------------------- run_n_times
empty_values_dict ==
    [total |-> 0, success |-> 0, percent |-> Zero, groups |-> None,
     student_to_friends |-> None]

values_of(r) ==
    [total |-> r.total, success |-> r.success, percent |-> r.percent,
     groups |-> Some(r.groups), student_to_friends |-> Some(r.student_to_friends)]

\* as is_higher, with >= for >
is_higher_or_equal(curr_percent, max_percent) == ~PercentGT(max_percent, curr_percent)

is_higher(curr_percent, max_percent) == PercentGT(curr_percent, max_percent)

Idle ==
    /\ groups = <<>> /\ student_to_group = <<>> /\ target_size = 0
    /\ idx = 0 /\ moves = 0 /\ result = None

Init ==
    /\ num_groups \in -1..MaxGroups
    /\ n \in 0..MaxTrials
    /\ students \in StudentLists
    /\ ordering = students
    /\ student_to_friends \in PreferenceMaps(Range(students))
    /\ i = 0
    /\ max_values_dict = empty_values_dict
    /\ curr_values_dict = empty_values_dict
    /\ calls = <<>>
    /\ pc = "for_i"
    /\ Idle

\* one iteration of the loop of run_n_times, lines 223-231
Trial ==
    /\ pc = "for_i" /\ i < n /\ num_groups # 0
    /\ \E order \in trial_orders(students) :
        LET r == run_smart_assignment(order, student_to_friends, num_groups) IN
        /\ curr_values_dict' = values_of(r)
        /\ max_values_dict' =
               IF is_higher(r.percent, max_values_dict.percent)
               THEN values_of(r) ELSE max_values_dict
        /\ calls' = Append(calls, r)
    /\ i' = i + 1
    /\ UNCHANGED <<num_groups, n, students, ordering, student_to_friends, groups,
                   student_to_group, target_size, idx, moves, result, pc>>

\* total_students // num_groups with num_groups = 0, line 196
TrialZeroDivision ==
    /\ pc = "for_i" /\ i < n /\ num_groups = 0
    /\ pc' = "ZeroDivisionError"
    /\ UNCHANGED <<num_groups, n, students, ordering, student_to_friends, groups,
                   student_to_group, target_size, idx, moves, i, curr_values_dict,
                   max_values_dict, calls, result>>

\* lines 234-238 with a best record
Export ==
    /\ pc = "for_i" /\ i = n /\ max_values_dict.groups # None
    /\ pc' = "done"
    /\ UNCHANGED <<num_groups, n, students, ordering, student_to_friends, groups,
                   student_to_group, target_size, idx, moves, i, curr_values_dict,
                   max_values_dict, calls, result>>

\* line 142, groups.items() on None
ExportNone ==
    /\ pc = "for_i" /\ i = n /\ max_values_dict.groups = None
    /\ pc' = "AttributeError"
    /\ UNCHANGED <<num_groups, n, students, ordering, student_to_friends, groups,
                   student_to_group, target_size, idx, moves, i, curr_values_dict,
                   max_values_dict, calls, result>>

Next == Trial \/ TrialZeroDivision \/ Export \/ ExportNone

Spec == Init /\ [][Next]_vars

\* ------------------------------ run_smart_assignment, statement by statement
\* a long students column: student 1 and 2 nominate nobody, every later one
\* nominates nobody or student 2
ChainStudents == [k \in 1..ChainLen |-> k]

ChainMaps ==
    {f \in [1..ChainLen -> {<<>>, <<2>>}] : f[1] = <<>> /\ f[2] = <<>>}

\* the orders followed after shuffle(students), line 46: all of them for a
\* list of up to MaxStudents entries, for a longer list only the order it has
shuffle_outcomes(list) == IF Len(list) <= MaxStudents THEN shuffle(list) ELSE {list}

NoSearch ==
    /\ n = 0 /\ i = 0
    /\ curr_values_dict = empty_values_dict /\ max_values_dict = empty_values_dict

InitTrial ==
    /\ \/ /\ num_groups \in -1..MaxGroups
          /\ ordering \in StudentLists
          /\ student_to_friends \in PreferenceMaps(Range(ordering))
       \/ /\ num_groups = 2
          /\ ordering = ChainStudents
          /\ student_to_friends \in ChainMaps
    /\ students = ordering
    /\ groups = <<>> /\ student_to_group = <<>> /\ idx = 0
    /\ target_size = 0 /\ moves = 0 /\ result = None
    /\ calls = <<>>
    /\ pc = "call"
    /\ NoSearch

\* the call of line 193 up to the loop: lines 43-46
AssignCall ==
    /\ pc = "call"
    /\ groups' = fresh_groups(num_groups)
    /\ student_to_group' = <<>>
    /\ students' \in shuffle_outcomes(ordering)
    /\ idx' = 1
    /\ pc' = "for_student"
    /\ UNCHANGED <<num_groups, n, ordering, student_to_friends, target_size, moves,
                   i, curr_values_dict, max_values_dict, calls, result>>

\* one iteration of the for loop, lines 48-73
AssignStep ==
    /\ pc = "for_student" /\ idx <= Len(students)
    /\ LET r == place(students[idx], groups, student_to_group, student_to_friends) IN
        /\ groups' = r.groups
        /\ student_to_group' = r.student_to_group
    /\ idx' = idx + 1
    /\ UNCHANGED <<num_groups, n, students, ordering, student_to_friends,
                   target_size, moves, i, curr_values_dict, max_values_dict, calls,
                   result, pc>>

\* line 75, and lines 195-197 up to the loop of balance_groups
AssignReturn ==
    /\ pc = "for_student" /\ idx > Len(students) /\ num_groups # 0
    /\ target_size' = FloorDiv(Len(students), num_groups)
    /\ pc' = "while"
    /\ UNCHANGED <<num_groups, n, students, ordering, student_to_friends, groups,
                   student_to_group, idx, moves, i, curr_values_dict,
                   max_values_dict, calls, result>>

\* line 75, and total_students // num_groups with num_groups = 0, line 196
AssignReturnZeroDivision ==
    /\ pc = "for_student" /\ idx > Len(students) /\ num_groups = 0
    /\ pc' = "ZeroDivisionError"
    /\ UNCHANGED <<num_groups, n, students, ordering, student_to_friends, groups,
                   student_to_group, target_size, idx, moves, i, curr_values_dict,
                   max_values_dict, calls, result>>

\* ---------------------------------- assign_students_to_groups, called twice
InitTwoCalls ==
    /\ num_groups \in 0..MaxGroups
    /\ ordering \in StudentLists
    /\ student_to_friends
         \in MapsUpTo(Cardinality(Range(ordering)), MaxNominationsTwice)
    /\ students = ordering
    /\ groups = <<>> /\ student_to_group = <<>> /\ idx = 0
    /\ target_size = 0 /\ moves = 0 /\ result = None
    /\ calls = <<>>
    /\ pc = "call"
    /\ NoSearch

\* as CallAssign, with the student_to_group of the previous call kept (a
\* dictionary that outlives the call)
CallAssignKeepsDict ==
    /\ pc = "call"
    /\ \E order \in shuffle_outcomes(ordering) :
        LET r == assign_loop(order, 1, fresh_groups(num_groups), student_to_group,
                             student_to_friends) IN
        /\ students' = order
        /\ groups' = r.groups
        /\ student_to_group' = r.student_to_group
        /\ calls' = Append(calls, [order |-> order, groups |-> r.groups])
    /\ idx' = Len(students) + 1
    /\ pc' = IF Len(calls) = 0 THEN "call" ELSE "done"
    /\ UNCHANGED <<num_groups, n, ordering, student_to_friends, target_size, moves,
                   i, curr_values_dict, max_values_dict, result>>

\* a whole call with the caller's ordering, lines 42-75; the caller calls twice
CallAssign ==
    /\ pc = "call"
    /\ \E order \in shuffle_outcomes(ordering) :
        LET r == assign_loop(order, 1, fresh_groups(num_groups), <<>>,
                             student_to_friends) IN
        /\ students' = order
        /\ groups' = r.groups
        /\ student_to_group' = r.student_to_group
        /\ calls' = Append(calls, [order |-> order, groups |-> r.groups])
    /\ idx' = Len(students) + 1
    /\ pc' = IF Len(calls) = 0 THEN "call" ELSE "done"
    /\ UNCHANGED <<num_groups, n, ordering, student_to_friends, target_size, moves,
                   i, curr_values_dict, max_values_dict, result>>

NextTwoCalls == CallAssign

SpecTwoCalls == InitTwoCalls /\ [][NextTwoCalls]_vars

\* --------------------------------------- balance_groups, iteration by iteration
RECURSIVE Sum(_, _)
Sum(f, k) == IF k = 0 THEN 0 ELSE f[k] + Sum(f, k - 1)

\* groups of the given sizes, filled with the students 1, 2, ... in turn
groups_of_sizes(sizes) ==
    [g \in DOMAIN sizes |-> [k \in 1..sizes[g] |-> Sum(sizes, g - 1) + k]]

RECURSIVE Flatten(_, _)
Flatten(grps, g) == IF g = 0 THEN <<>> ELSE Flatten(grps, g - 1) \o grps[g]

InitBalance ==
    /\ num_groups \in 1..MaxGroups
    /\ \E sizes \in [1..num_groups -> 0..MaxGroupSize] :
          groups = groups_of_sizes(sizes)
    /\ target_size \in 0..MaxTargetSize
    /\ students = Flatten(groups, num_groups)
    /\ ordering = students
    /\ student_to_friends = [s \in Range(students) |-> <<>>]
    /\ student_to_group = <<>> /\ idx = 0
    /\ n = 0 /\ i = 0 /\ moves = 0 /\ result = None
    /\ curr_values_dict = empty_values_dict /\ max_values_dict = empty_values_dict
    /\ calls = <<>>
    /\ pc = "while"

\* an iteration that moves a student, lines 83-95
BalanceMove ==
    /\ pc = "while" /\ ~balance_done(groups, target_size)
    /\ groups' = balance_move(groups, target_size)
    /\ moves' = moves + 1
    /\ UNCHANGED <<num_groups, n, students, ordering, student_to_friends,
                   student_to_group, target_size, idx, i, curr_values_dict,
                   max_values_dict, calls, result, pc>>

\* the iteration that breaks, and line 97: evaluate_friend_success comes next
BalanceReturn ==
    /\ pc = "while" /\ balance_done(groups, target_size)
    /\ pc' = "evaluate"
    /\ UNCHANGED <<num_groups, n, students, ordering, student_to_friends, groups,
                   student_to_group, target_size, idx, moves, i, curr_values_dict,
                   max_values_dict, calls, result>>

NextBalance == BalanceMove \/ BalanceReturn

\* the loop is straight-line code: it takes its next step whenever it has one
SpecBalance == InitBalance /\ [][NextBalance]_vars /\ WF_vars(NextBalance)

\* -------------------------------------------------- evaluate_friend_success, called
RECURSIVE SortedSeq(_)
SortedSeq(S) == IF S = {} THEN <<>> ELSE <<Min(S)>> \o SortedSeq(S \ {Min(S)})

\* partitions of some of the students 1..MaxStudents into two groups
EvalPartitions ==
    {[g \in 1..2 |-> SortedSeq({s \in 1..MaxStudents : a[s] = g})] :
        a \in [1..MaxStudents -> 0..2]}

FixtureGroups == <<<<1, 2>>, <<3, 4>>>>
FixtureFriends == <<<<2>>, <<1>>, <<4>>, <<>>>>

InitEval ==
    /\ \/ /\ \E k \in 0..MaxStudents : student_to_friends \in PreferenceMaps(1..k)
          /\ groups \in EvalPartitions
       \/ /\ student_to_friends = FixtureFriends
          /\ groups = FixtureGroups
    /\ num_groups = Len(groups)
    /\ students = <<>> /\ ordering = <<>>
    /\ student_to_group = <<>> /\ idx = 0 /\ target_size = 0
    /\ n = 0 /\ i = 0 /\ moves = 0 /\ result = None
    /\ curr_values_dict = empty_values_dict /\ max_values_dict = empty_values_dict
    /\ calls = <<>>
    /\ pc = "evaluate"

Evaluate ==
    /\ pc = "evaluate"
    /\ result' = Some(evaluate_friend_success(groups, student_to_friends))
    /\ pc' = "evaluated"
    /\ UNCHANGED <<num_groups, n, students, ordering, student_to_friends, groups,
                   student_to_group, target_size, idx, moves, i, curr_values_dict,
                   max_values_dict, calls>>

NextEval == Evaluate

SpecEval == InitEval /\ [][NextEval]_vars

\* ------------------------------------------- run_smart_assignment as a whole
NextTrial ==
    \/ AssignCall \/ AssignStep \/ AssignReturn \/ AssignReturnZeroDivision
    \/ BalanceMove \/ BalanceReturn \/ Evaluate

SpecTrial == InitTrial /\ [][NextTrial]_vars

\* ================================================================== claims
Positions(grps) == UNION {{<<g, k>> : k \in DOMAIN grps[g]} : g \in DOMAIN grps}

Occurrences(grps, s) ==
    Cardinality({p \in Positions(grps) : grps[p[1]][p[2]] = s})

Members(grps) == UNION {Range(grps[g]) : g \in DOMAIN grps}

\* every individual of pop is in exactly one place of grps, and nobody else is
CoversExactlyOnce(grps, pop) ==
    /\ Members(grps) = pop
    /\ \A s \in pop : Occurrences(grps, s) = 1

\* C1: for a population without duplicates and a group count >= 1, the
\* partition at the end of every trial holds every individual of the
\* population in exactly one group: the union of the groups is the population
\* and nobody occurs twice.
C1_Completeness ==
    (pc \in {"evaluate", "evaluated"} /\ num_groups >= 1 /\ NoDuplicates(ordering)) =>
        CoversExactlyOnce(groups, Range(ordering))

\* a trial of three or more students is over in which balance_groups moved a
\* student
C1_Witness ==
    /\ pc = "evaluated" /\ num_groups >= 2 /\ NoDuplicates(ordering)
    /\ Len(ordering) >= 3 /\ moves >= 1

\* C2: for a population of P individuals without duplicates, G >= 1 groups and
\* T = P div G, the partition balance_groups(groups, T) returns in a trial has
\* no group with more than T+1 members and none with fewer than T members.
C2_BalanceBound ==
    (pc \in {"evaluate", "evaluated"} /\ num_groups >= 1 /\ NoDuplicates(ordering)) =>
        \A g \in DOMAIN groups :
            LET T == Len(ordering) \div num_groups IN
            /\ Len(groups[g]) <= T + 1
            /\ Len(groups[g]) >= T

\* the first trial, in execution order, whose percentage no trial exceeds
FirstBest ==
    CHOOSE t \in DOMAIN calls :
        /\ \A u \in DOMAIN calls : ~PercentGT(calls[u].percent, calls[t].percent)
        /\ \A u \in DOMAIN calls :
               u < t => PercentGT(calls[t].percent, calls[u].percent)

\* C3: after the loop of run_n_times with n >= 1 and a group count >= 1, the
\* record max_values_dict holds the partition, success count and total of the
\* first trial whose percentage is the maximum over all n trials, and that
\* partition covers the population exactly once under the labels Group1..GroupN
\* (stated for a population that is not empty).
C3_BestRecord ==
    (i = n /\ n >= 1 /\ num_groups >= 1 /\ NoDuplicates(students)
        /\ students # <<>>) =>
        /\ max_values_dict.groups = Some(calls[FirstBest].groups)
        /\ max_values_dict.success = calls[FirstBest].success
        /\ max_values_dict.total = calls[FirstBest].total
        /\ DOMAIN calls[FirstBest].groups = 1..num_groups
        /\ CoversExactlyOnce(calls[FirstBest].groups, Range(students))

\* C4: the stored best percentage is at least the percentage of every trial run
\* so far and equals the greatest of them, and the stored record is the one of
\* the first trial that reached it: a later trial of equal percentage never
\* replaces it (a record of percentage 0 is the initial one, never replaced).
C4_BestPercent ==
    /\ \A t \in DOMAIN calls : ~PercentGT(calls[t].percent, max_values_dict.percent)
    /\ calls # <<>> =>
         /\ PercentEQ(max_values_dict.percent, calls[FirstBest].percent)
         /\ max_values_dict =
              IF PercentGT(calls[FirstBest].percent, Zero)
              THEN values_of(calls[FirstBest]) ELSE empty_values_dict

\* two trials of equal, positive percentage and different partitions: the
\* record is the first one's
C4_Witness ==
    /\ Len(calls) = 2
    /\ PercentEQ(calls[1].percent, calls[2].percent)
    /\ PercentGT(calls[1].percent, Zero)
    /\ calls[1].groups # calls[2].groups
    /\ max_values_dict = values_of(calls[1])

\* C6: with a group count <= 0 or a trial count of 0 the search fails fast with
\* an invalid-configuration error: no partition is produced or evaluated, and
\* the run ends in no other way.
C6_FailFast ==
    (num_groups <= 0 \/ n = 0) =>
        /\ calls = <<>>
        /\ pc \in {"for_i", "InvalidConfigurationError"}

ClaimScore(s, members) ==
    10 * Cardinality({k \in DOMAIN Get(student_to_friends, s) :
                        /\ Get(student_to_friends, s)[k] \in Range(ordering)
                        /\ Get(student_to_friends, s)[k] \in Range(members)})
    - Len(members)

\* g has the greatest score, and is the first group in group order that has it
ClaimBest(s, g) ==
    /\ \A h \in DOMAIN groups : ClaimScore(s, groups[g]) >= ClaimScore(s, groups[h])
    /\ \A h \in DOMAIN groups :
           h < g => ClaimScore(s, groups[h]) < ClaimScore(s, groups[g])

\* C9: each iteration of the for loop appends a student not yet placed to the
\* group of greatest score 10 * (nominated students already in it) - (its
\* size), the first such group in group order, and changes nothing else; a
\* student already placed is neither moved nor placed again.
C9_GreedyChoice ==
    [][(pc = "for_student" /\ idx' = idx + 1) =>
        LET s == students[idx] IN
        IF s \in Members(groups) \/ num_groups <= 0
        THEN groups' = groups
        ELSE \E g \in DOMAIN groups :
                /\ ClaimBest(s, g)
                /\ groups' = [groups EXCEPT ![g] = Append(@, s)]]_vars

\* a call is over in which the second row of a student was skipped, and a
\* student joined a nominee in Group1 while Group2 stayed empty
C9_Witness ==
    /\ pc = "for_student" /\ idx > Len(students)
    /\ ~NoDuplicates(students)
    /\ num_groups >= 2 /\ Len(groups[1]) = 2 /\ groups[2] = <<>>
    /\ \E k \in DOMAIN Get(student_to_friends, groups[1][2]) :
           Get(student_to_friends, groups[1][2])[k] = groups[1][1]

Nominated(s, members) ==
    \E k \in DOMAIN Get(student_to_friends, s) :
        Get(student_to_friends, s)[k] \in Range(members)

\* the student of this iteration is appended to group H although group G holds
\* one of its nominees, H holds none and G has at most d members more than H
PlacedAgainstNominee(d) ==
    /\ pc = "for_student" /\ idx' = idx + 1
    /\ \E G \in DOMAIN groups : \E H \in DOMAIN groups :
        /\ G # H
        /\ groups'[H] = Append(groups[H], students[idx])
        /\ Nominated(students[idx], groups[G])
        /\ ~Nominated(students[idx], groups[H])
        /\ Len(groups[G]) - Len(groups[H]) <= d

\* C10 (as stated): when G holds a nominee of the student being placed, H holds
\* none and size(G) - size(H) <= 10, the student is not placed in H.
C10_TenOutweighed == [][~PlacedAgainstNominee(10)]_vars

\* C10 (amended): when G holds a nominee of the student being placed, H holds
\* none and size(G) - size(H) < 10, the student is not placed in H, whatever the
\* positions of G and H in group order.
C10_NineOutweighed == [][~PlacedAgainstNominee(9)]_vars

\* the last student of a later group G joined a nominee there when G had nine
\* members more than an earlier group H without nominees
C10_Witness ==
    /\ pc = "for_student"
    /\ \E G \in DOMAIN groups : \E H \in DOMAIN groups :
        /\ H < G /\ Len(groups[G]) >= 2
        /\ LET s == groups[G][Len(groups[G])] IN
            /\ s = students[idx - 1]
            /\ Nominated(s, SubSeq(groups[G], 1, Len(groups[G]) - 1))
            /\ ~Nominated(s, groups[H])
            /\ (Len(groups[G]) - 1) - Len(groups[H]) = 9

RECURSIVE AbsSum(_, _, _)
AbsSum(grps, T, g) ==
    IF g = 0 THEN 0
    ELSE AbsSum(grps, T, g - 1)
         + (IF Len(grps[g]) >= T THEN Len(grps[g]) - T ELSE T - Len(grps[g]))

\* the sum over the groups of |size - target|
Deviation(grps, T) == AbsSum(grps, T, Len(grps))

\* one student left a group of more than target+1 members for a group of fewer
\* than target members, and no other group changed
MovedOne ==
    \E d \in DOMAIN groups : \E r \in DOMAIN groups : \E s \in Range(groups[d]) :
        /\ d # r
        /\ Len(groups[d]) > target_size + 1
        /\ Len(groups[r]) < target_size
        /\ Len(groups'[d]) = Len(groups[d]) - 1
        /\ Range(groups'[d]) = Range(groups[d]) \ {s}
        /\ Len(groups'[r]) = Len(groups[r]) + 1
        /\ Range(groups'[r]) = Range(groups[r]) \cup {s}
        /\ \A g \in DOMAIN groups : g \notin {d, r} => groups'[g] = groups[g]

\* C8: for every partition and target >= 0 the loop of balance_groups ends:
\* each iteration moves one student from a group of more than target+1 to a
\* group of fewer than target members and strictly decreases the sum of
\* |size - target|, and there are at most as many iterations as students.
C8_BalanceTerminates ==
    /\ [][(pc = "while" /\ moves' # moves) =>
            /\ MovedOne
            /\ DOMAIN groups' = DOMAIN groups
            /\ Deviation(groups', target_size) < Deviation(groups, target_size)]_vars
    /\ [](moves <= Len(students))
    /\ <>(pc = "evaluate")

\* the loop returned after two or more iterations
C8_Witness == pc = "evaluate" /\ moves >= 2

\* the students with an entry in the preference map that are in the partition
Listed == DOMAIN student_to_friends \cap Members(groups)

\* those of them that have a nominee in a group they are in
Matched ==
    {s \in Listed : \E g \in DOMAIN groups : \E k \in DOMAIN student_to_friends[s] :
        /\ s \in Range(groups[g])
        /\ student_to_friends[s][k] \in Range(groups[g])}

\* C5: evaluate_friend_success returns total = the students with an entry in
\* the preference map (an empty list included) that are in the partition,
\* success = those of them that share a group with one of their nominees, and
\* percent = 100 * success / total, or 0 when total = 0; A->[B], B->[A], C->[D],
\* D->[] with {G1: [A, B], G2: [C, D]} gives total 4 and success 3.
C5_Evaluation ==
    pc = "evaluated" =>
        /\ result[1].total = Cardinality(Listed)
        /\ result[1].success = Cardinality(Matched)
        /\ result[1].percent.den > 0
        /\ result[1].percent.num * Cardinality(Listed)
             = 100 * Cardinality(Matched) * result[1].percent.den
        /\ Cardinality(Listed) = 0 => result[1].percent.num = 0
        /\ (groups = FixtureGroups /\ student_to_friends = FixtureFriends) =>
              (result[1].total = 4 /\ result[1].success = 3)

\* the fixture of the claim, evaluated
C5_Witness ==
    /\ pc = "evaluated"
    /\ groups = FixtureGroups /\ student_to_friends = FixtureFriends
    /\ result[1].total = 4 /\ result[1].success = 3

====
